---------------------------- MODULE Spec2Model ----------------------------
(***************************************************************************)
(* The catalog controllers of express-locallibrary-tutorial (Genre,        *)
(* Author, Book, BookInstance) as a state machine over the Entity Store.   *)
(* One action per exported handler; a request is handled to completion     *)
(* before the next one starts (Spec); SpecInterleaved lets other requests   *)
(* run between the two store calls of an author delete.                    *)
(*                                                                         *)
(* Strings are sequences of one-character strings, so that trim() and      *)
(* escape() are computed.  Record ids are strings too (they travel through *)
(* the same sanitizer chains as every other form field).                   *)
(***************************************************************************)
EXTENDS Integers, Sequences, FiniteSets

VARIABLES
    genres,      \* Genre collection: set of [id, name]
    authors,     \* Author collection
    books,       \* Book collection
    instances,   \* BookInstance collection
    n_genre,     \* ids handed out so far, per collection (ObjectIds are never reused)
    n_author,
    n_book,
    n_instance,
    req,         \* the request being answered: [handler, id, bodyid, body, failed]
    resp,        \* what the handler called, in order: res.render / res.redirect / next(err)
    awaiting     \* handler runs suspended at an await between two store calls, each with
                 \* what its store calls have returned so far

store == <<genres, authors, books, instances>>
counters == <<n_genre, n_author, n_book, n_instance>>
vars == <<genres, authors, books, instances, n_genre, n_author, n_book, n_instance, req, resp,
          awaiting>>

----------------------------------------------------------------------------
(* Bounds of the model *)

\* records ever inserted, per collection
MaxGenres == 2
MaxAuthors == 1
MaxBooks == 1
MaxInstances == 1

\* handler runs suspended between two store calls at a time
MaxInFlight == 1

----------------------------------------------------------------------------
(* Strings *)

Digits == <<"1", "2", "3", "4">>
DigitSet == {"0"} \cup {Digits[i] : i \in 1..Len(Digits)}
Letters == {"a", "b"}
Space == " "
Amp == "&"

\* the n-th ObjectId, as the string a URL or a form field carries
Id(n) == <<Digits[n]>>

\* the ids a request may name: those the collection hands out and, for books, one more
\* that no record ever has
GenreIds == {Id(n) : n \in 1..MaxGenres}
AuthorIds == {Id(n) : n \in 1..MaxAuthors}
BookIds == {Id(n) : n \in 1..MaxBooks + 1}
InstanceIds == {Id(n) : n \in 1..MaxInstances}

RECURSIVE LTrim(_)
LTrim(s) == IF s # <<>> /\ Head(s) = Space THEN LTrim(Tail(s)) ELSE s

RECURSIVE RTrim(_)
RTrim(s) == IF s # <<>> /\ s[Len(s)] = Space THEN RTrim(SubSeq(s, 1, Len(s) - 1)) ELSE s

\* validator.js trim(): strips whitespace on both ends
Trim(s) == RTrim(LTrim(s))

\* validator.js escape(): replaces the HTML-special characters by entities
RECURSIVE Escape(_)
Escape(s) ==
    IF s = <<>> THEN <<>>
    ELSE (IF Head(s) = Amp THEN <<"&", "a", "m", "p", ";">> ELSE <<Head(s)>>) \o Escape(Tail(s))

\* validator.js isLength({min: 1})
IsLengthMin1(s) == Len(s) >= 1

\* validator.js isAlphanumeric(): /^[0-9A-Z]+$/i
IsAlphanumeric(s) == s # <<>> /\ \A i \in 1..Len(s) : s[i] \in Letters \cup DigitSet

\* validator.js isISO8601(), on the year-only calendar form "YYYY"
IsISO8601(s) == Len(s) = 4 /\ \A i \in 1..4 : s[i] \in DigitSet

\* express-validator optional({checkFalsy: true}): the chain is skipped for a falsy value
IsFalsy(s) == s = <<>>

\* a null field value
Null == <<"null">>

\* validator.js toDate(): a Date, or null when the string does not parse
ToDate(s) == IF IsISO8601(s) THEN <<"Date">> \o s ELSE Null

----------------------------------------------------------------------------
(* Responses: the calls a handler makes on res and next *)

NoData == [none |-> TRUE]

Render(view, title, data, errors) ==
    [type |-> "render", view |-> view, title |-> title, url |-> <<>>,
     data |-> data, errors |-> errors, err |-> "", status |-> ""]

Redirect(url) ==
    [type |-> "redirect", view |-> "", title |-> "", url |-> url,
     data |-> NoData, errors |-> <<>>, err |-> "", status |-> ""]

\* next(err): the error is forwarded to the fault handler at the boundary
Forward(err, status) ==
    [type |-> "next", view |-> "", title |-> "", url |-> <<>>,
     data |-> NoData, errors |-> <<>>, err |-> err, status |-> status]

\* err.status = 404
HttpNotFound == "404"

\* an Error that carries no status
NoStatus == ""

\* a null dereference in the handler: "Cannot read properties of null"
TypeError == "TypeError"

\* "/catalog/<kind>/<id>": the url virtual of a model
DetailUrl(kind, id) == <<"catalog", kind>> \o id

\* "/catalog/<kind>s"
ListUrl(kinds) == <<"catalog", kinds>>

\* no Entity Store call of the request failed
NoCall == ""

\* a request as its handler runs it: the route's handler, req.params.id, the id field of the
\* form, the rest of the form, and the Entity Store call that failed on the way (if any)
Request(handler, id, bodyid, body) ==
    [handler |-> handler, id |-> id, bodyid |-> bodyid, body |-> body, failed |-> NoCall]

NoId == <<>>

----------------------------------------------------------------------------
(* Entity Store queries *)

\* Model.findById(id): the record, or none
FindById(coll, id) == {r \in coll : r.id = id}

\* Model.findByIdAndRemove(id)
RemoveById(coll, id) == {r \in coll : r.id # id}

\* Book.find({ author: id })
BooksOfAuthor(id) == {b \in books : b.author = id}

\* a lookup that compares the genre field with its first element only
BooksOfGenreFirst(id) == {b \in books : b.genre # <<>> /\ b.genre[1] = id}

\* Book.find({ genre: id }): an array field matches when it contains the value
BooksOfGenre(id) == {b \in books : \E i \in 1..Len(b.genre) : b.genre[i] = id}

\* BookInstance.find({ book: id })
InstancesOfBook(id) == {i \in instances : i.book = id}

\* a lookup that filters on the wrong path
GenresNamedById(name) == {g \in genres : g.id = name}

\* Genre.findOne({ name: name })
GenresNamed(name) == {g \in genres : g.name = name}

\* code-point order of the characters in use, as the store compares strings
CharOrder == <<" ", "&", "1", "2", "3", "4", ";", "a", "b", "m", "p">>

CharRank(c) == CHOOSE i \in 1..Len(CharOrder) : CharOrder[i] = c

RECURSIVE StrLeq(_, _)
StrLeq(s, t) ==
    IF s = <<>> THEN TRUE
    ELSE IF t = <<>> THEN FALSE
    ELSE IF Head(s) = Head(t) THEN StrLeq(Tail(s), Tail(t))
    ELSE CharRank(Head(s)) < CharRank(Head(t))

\* ascending by key; records with equal keys in insertion (id) order
KeyLeq(x, y) == IF x.key = y.key THEN StrLeq(x.rec.id, y.rec.id) ELSE StrLeq(x.key, y.key)

RECURSIVE SortedSeq(_)
SortedSeq(S) ==
    IF S = {} THEN <<>>
    ELSE LET m == CHOOSE x \in S : \A y \in S : KeyLeq(x, y)
         IN  <<m.rec>> \o SortedSeq(S \ {m})

\* Model.find().sort([[field, "ascending"]])
SortByName(coll) == SortedSeq({[key |-> g.name, rec |-> g] : g \in coll})

----------------------------------------------------------------------------
(* express-validator chains *)

ValidationError(param, msg) == [param |-> param, msg |-> msg]

\* body(param, msg).trim().isLength({ min: 1 }).escape()
RequiredChain(param, msg, raw) ==
    [value  |-> Escape(Trim(raw)),
     errors |-> IF IsLengthMin1(Trim(raw)) THEN <<>> ELSE <<ValidationError(param, msg)>>]

\* body(param).trim().isLength({ min: 1 }).escape().withMessage(m1).isAlphanumeric().withMessage(m2)
\* every validator of a chain runs (there is no bail()), on the value as sanitized so far
NameChain(param, m1, m2, raw) ==
    [value  |-> Escape(Trim(raw)),
     errors |-> (IF IsLengthMin1(Trim(raw)) THEN <<>> ELSE <<ValidationError(param, m1)>>)
                \o (IF IsAlphanumeric(Escape(Trim(raw))) THEN <<>> ELSE <<ValidationError(param, m2)>>)]

\* body(param, msg).optional({ checkFalsy: true }).isISO8601().toDate()
DateChain(param, msg, raw) ==
    IF IsFalsy(raw) THEN [value |-> raw, errors |-> <<>>]
    ELSE [value  |-> ToDate(raw),
          errors |-> IF IsISO8601(raw) THEN <<>> ELSE <<ValidationError(param, msg)>>]

----------------------------------------------------------------------------
(* Genre controller *)

NameInputs == {<<" ">>, <<"a">>, <<" ", "a">>, <<"&">>}

genre_list ==
    /\ req' = Request("genre_list", NoId, NoId, NoData)
    /\ UNCHANGED awaiting
    /\ resp' = <<Render("genre_list", "Genre List", [genre_list |-> SortByName(genres)], <<>>)>>
    /\ UNCHANGED <<store, counters>>

genre_detail(id) ==
    /\ req' = Request("genre_detail", id, NoId, NoData)
    /\ UNCHANGED awaiting
    /\ resp' = IF FindById(genres, id) = {}
               THEN <<Forward("Genre not found", HttpNotFound)>>
               ELSE <<Render("genre_detail", "Genre Detail",
                             [genre |-> FindById(genres, id), genre_books |-> BooksOfGenre(id)],
                             <<>>)>>
    /\ UNCHANGED <<store, counters>>

genre_create_get ==
    /\ req' = Request("genre_create_get", NoId, NoId, NoData)
    /\ UNCHANGED awaiting
    /\ resp' = <<Render("genre_form", "Create Genre", NoData, <<>>)>>
    /\ UNCHANGED <<store, counters>>

\* the chain without trim()
genre_create_validate_notrim(body) ==
    [body   |-> [name |-> Escape(body.name)],
     errors |-> IF IsLengthMin1(body.name) THEN <<>>
                ELSE <<ValidationError("name", "Genre name required")>>]

genre_create_validate(body) ==
    LET name == RequiredChain("name", "Genre name required", body.name)
    IN  [body |-> [name |-> name.value], errors |-> name.errors]

genre_create_post(body) ==
    LET v     == genre_create_validate(body)
        genre == [id |-> Id(n_genre + 1), name |-> v.body.name]
        found == GenresNamed(v.body.name)
    IN  /\ req' = Request("genre_create_post", NoId, NoId, body)
        /\ UNCHANGED awaiting
        /\ IF v.errors # <<>>
           THEN /\ resp' = <<Render("genre_form", "Create Genre", [genre |-> {genre}], v.errors)>>
                /\ UNCHANGED <<store, counters>>
           ELSE IF found # {}
           THEN /\ \E found_genre \in found :
                       resp' = <<Redirect(DetailUrl("genre", found_genre.id))>>
                /\ UNCHANGED <<store, counters>>
           ELSE /\ n_genre < MaxGenres
                /\ genres' = genres \cup {genre}
                /\ n_genre' = n_genre + 1
                /\ resp' = <<Redirect(DetailUrl("genre", genre.id))>>
                /\ UNCHANGED <<authors, books, instances, n_author, n_book, n_instance>>

genre_delete_get(id) ==
    LET genre == FindById(genres, id)
        view  == Render("genre_delete", "Delete Genre",
                        [genre |-> genre, genre_books |-> BooksOfGenre(id)], <<>>)
    IN  /\ req' = Request("genre_delete_get", id, NoId, NoData)
        /\ UNCHANGED awaiting
        /\ resp' = IF genre = {}
                   THEN <<Redirect(ListUrl("genres")), view>>
                   ELSE <<view>>
        /\ UNCHANGED <<store, counters>>

genre_delete_post(id, genreid) ==
    LET genre       == FindById(genres, genreid)
        genre_books == BooksOfGenre(genreid)
    IN  /\ req' = Request("genre_delete_post", id, genreid, NoData)
        /\ UNCHANGED awaiting
        /\ IF genre_books # {}
           THEN /\ resp' = <<Render("genre_delete", "Delete genre",
                                    [genre |-> genre, genre_books |-> genre_books], <<>>)>>
                /\ UNCHANGED <<store, counters>>
           ELSE /\ genres' = RemoveById(genres, genreid)
                /\ resp' = <<Redirect(ListUrl("genres"))>>
                /\ UNCHANGED <<authors, books, instances, counters>>

genre_update_get(id) ==
    /\ req' = Request("genre_update_get", id, NoId, NoData)
    /\ UNCHANGED awaiting
    /\ resp' = IF FindById(genres, id) = {}
               THEN <<Forward("Genre not found", HttpNotFound)>>
               ELSE <<Render("genre_form", "Update Genre", [genre |-> FindById(genres, id)], <<>>)>>
    /\ UNCHANGED <<store, counters>>

genre_update_validate(body) ==
    LET name == RequiredChain("name", "Genre name required", body.name)
    IN  [body |-> [name |-> name.value], errors |-> name.errors]

genre_update_post(id, body) ==
    LET v        == genre_update_validate(body)
        genre    == [id |-> id, name |-> v.body.name]
        found    == GenresNamed(v.body.name)
        thegenre == FindById(genres, id)
    IN  /\ req' = Request("genre_update_post", id, NoId, body)
        /\ UNCHANGED awaiting
        /\ IF v.errors # <<>>
           THEN \* the draft is shadowed by the record read back from the store
                /\ resp' = <<Render("genre_form", "Update Genre",
                                    [genre |-> FindById(genres, id)], v.errors)>>
                /\ UNCHANGED <<store, counters>>
           ELSE IF found # {}
           THEN /\ resp' = <<Forward("Genre already exists", NoStatus)>>
                /\ UNCHANGED <<store, counters>>
           ELSE IF thegenre = {}
           THEN \* findByIdAndUpdate gives null: thegenre.url throws inside the try
                /\ resp' = <<Forward(TypeError, NoStatus)>>
                /\ UNCHANGED <<store, counters>>
           ELSE /\ genres' = (genres \ thegenre) \cup {genre}
                /\ resp' = <<Redirect(DetailUrl("genre", id))>>
                /\ UNCHANGED <<authors, books, instances, counters>>

----------------------------------------------------------------------------
(* Author controller *)

IsoDate == <<"2", "0", "2", "3">>

AuthorBody(first_name, family_name, date_of_birth, date_of_death) ==
    [first_name |-> first_name, family_name |-> family_name,
     date_of_birth |-> date_of_birth, date_of_death |-> date_of_death]

\* submitted author forms: a valid one, a blank first name, a blank family name with an
\* unparseable date, a name with a special character
AuthorBodies ==
    {AuthorBody(<<"a", " ">>, <<"b">>, <<>>, <<>>),
     AuthorBody(<<>>, <<"a">>, IsoDate, <<>>),
     AuthorBody(<<"a">>, <<" ">>, <<>>, <<"x">>),
     AuthorBody(<<"&">>, <<"a">>, <<>>, <<>>)}

\* the Author schema casts an empty date field to null
CastDate(v) == IF v = <<>> THEN Null ELSE v

\* new Author({...}): the document built from the sanitized body
NewAuthor(id, body) ==
    [id |-> id, first_name |-> body.first_name, family_name |-> body.family_name,
     date_of_birth |-> CastDate(body.date_of_birth),
     date_of_death |-> CastDate(body.date_of_death)]

\* Book.find({ author: id }, "title summary")
TitleSummary(bs) == {[id |-> b.id, title |-> b.title, summary |-> b.summary] : b \in bs}

author_list ==
    /\ req' = Request("author_list", NoId, NoId, NoData)
    /\ UNCHANGED awaiting
    /\ resp' = <<Render("author_list", "Author List",
                        [author_list |-> SortedSeq({[key |-> a.family_name, rec |-> a] : a \in authors})],
                        <<>>)>>
    /\ UNCHANGED <<store, counters>>

author_detail(id) ==
    /\ req' = Request("author_detail", id, NoId, NoData)
    /\ UNCHANGED awaiting
    /\ resp' = IF FindById(authors, id) = {}
               THEN <<Forward("Author not found", HttpNotFound)>>
               ELSE <<Render("author_detail", "Author Detail",
                             [author |-> FindById(authors, id),
                              author_books |-> TitleSummary(BooksOfAuthor(id))], <<>>)>>
    /\ UNCHANGED <<store, counters>>

author_create_get ==
    /\ req' = Request("author_create_get", NoId, NoId, NoData)
    /\ UNCHANGED awaiting
    /\ resp' = <<Render("author_form", "Create Author", NoData, <<>>)>>
    /\ UNCHANGED <<store, counters>>

author_create_validate(body) ==
    LET first  == NameChain("first_name", "First name must be specified.",
                            "First name has non-alphanumeric characters.", body.first_name)
        family == NameChain("family_name", "Family name must be specified.",
                            "Family name has non-alphanumeric characters.", body.family_name)
        birth  == DateChain("date_of_birth", "Invalid date of birth", body.date_of_birth)
        death  == DateChain("date_of_death", "Invalid date of death", body.date_of_death)
    IN  [body   |-> [first_name |-> first.value, family_name |-> family.value,
                     date_of_birth |-> birth.value, date_of_death |-> death.value],
         errors |-> first.errors \o family.errors \o birth.errors \o death.errors]

author_create_post(body) ==
    LET v      == author_create_validate(body)
        author == NewAuthor(Id(n_author + 1), v.body)
    IN  /\ req' = Request("author_create_post", NoId, NoId, body)
        /\ UNCHANGED awaiting
        /\ IF v.errors # <<>>
           THEN /\ resp' = <<Render("author_form", "Create Author", [author |-> {v.body}], v.errors)>>
                /\ UNCHANGED <<store, counters>>
           ELSE /\ n_author < MaxAuthors
                /\ authors' = authors \cup {author}
                /\ n_author' = n_author + 1
                /\ resp' = <<Redirect(DetailUrl("author", author.id))>>
                /\ UNCHANGED <<genres, books, instances, n_genre, n_book, n_instance>>

author_delete_get(id) ==
    LET author == FindById(authors, id)
        view   == Render("author_delete", "Delete Author",
                         [author |-> author, author_books |-> BooksOfAuthor(id)], <<>>)
    IN  /\ req' = Request("author_delete_get", id, NoId, NoData)
        /\ UNCHANGED awaiting
        /\ resp' = IF author = {}
                   THEN <<Redirect(ListUrl("authors")), view>>
                   ELSE <<view>>
        /\ UNCHANGED <<store, counters>>

author_delete_post(id, authorid) ==
    LET author       == FindById(authors, authorid)
        author_books == BooksOfAuthor(authorid)
    IN  /\ req' = Request("author_delete_post", id, authorid, NoData)
        /\ UNCHANGED awaiting
        /\ IF author_books # {}
           THEN /\ resp' = <<Render("author_delete", "Delete Author",
                                    [author |-> author, author_books |-> author_books], <<>>)>>
                /\ UNCHANGED <<store, counters>>
           ELSE /\ authors' = RemoveById(authors, authorid)
                /\ resp' = <<Redirect(ListUrl("authors"))>>
                /\ UNCHANGED <<genres, books, instances, counters>>

author_update_get(id) ==
    /\ req' = Request("author_update_get", id, NoId, NoData)
    /\ UNCHANGED awaiting
    /\ resp' = IF FindById(authors, id) = {}
               THEN <<Forward("Author not found", HttpNotFound)>>
               ELSE <<Render("author_form", "Update Author", [author |-> FindById(authors, id)], <<>>)>>
    /\ UNCHANGED <<store, counters>>

author_update_validate(body) ==
    LET first  == NameChain("first_name", "First name must be specified.",
                            "First name has non-alphanumeric characters.", body.first_name)
        family == NameChain("family_name", "Family name must be specified.",
                            "Family name has non-alphanumeric characters.", body.family_name)
        birth  == DateChain("date_of_birth", "Invalid date of birth", body.date_of_birth)
        death  == DateChain("date_of_death", "Invalid date of death", body.date_of_death)
    IN  [body   |-> [first_name |-> first.value, family_name |-> family.value,
                     date_of_birth |-> birth.value, date_of_death |-> death.value],
         errors |-> first.errors \o family.errors \o birth.errors \o death.errors]

author_update_post(id, body) ==
    LET v         == author_update_validate(body)
        author    == NewAuthor(id, v.body)
        theauthor == FindById(authors, id)
    IN  /\ req' = Request("author_update_post", id, NoId, body)
        /\ UNCHANGED awaiting
        /\ IF v.errors # <<>>
           THEN /\ resp' = <<Render("author_form", "Update Author", [author |-> {v.body}], v.errors)>>
                /\ UNCHANGED <<store, counters>>
           ELSE IF theauthor = {}
           THEN \* theauthor.url throws outside any try: the rejection reaches nobody
                /\ resp' = <<>>
                /\ UNCHANGED <<store, counters>>
           ELSE /\ authors' = (authors \ theauthor) \cup {author}
                /\ resp' = <<Redirect(DetailUrl("author", id))>>
                /\ UNCHANGED <<genres, books, instances, counters>>

----------------------------------------------------------------------------
(* Book controller *)

\* the three shapes of req.body.genre as the body parser delivers it
Undefined == [type |-> "undefined", val |-> <<>>]
String(str) == [type |-> "string", val |-> str]
Array(seq) == [type |-> "array", val |-> seq]

BookBody(title, author, summary, isbn, genre) ==
    [title |-> title, author |-> author, summary |-> summary, isbn |-> isbn, genre |-> genre]

\* submitted book forms: valid with the genre field absent, single and multi-valued; one blank
\* field; three blank fields
BookBodies ==
    {BookBody(<<"a">>, Id(1), <<"a">>, <<"1">>, Undefined),
     BookBody(<<"&">>, Id(1), <<"a">>, <<"1">>, String(Id(1))),
     BookBody(<<"a">>, Id(1), <<" ", "a">>, <<"1">>, Array(<<Id(1), Id(MaxGenres)>>)),
     BookBody(<<>>, Id(1), <<"a">>, <<"1">>, String(Id(1))),
     BookBody(<<"a">>, <<>>, <<" ">>, <<>>, Array(<<Id(1), Id(MaxGenres)>>))}

\* a reference path of a schema: an empty string is no ObjectId and leaves the path unset
CastRef(v) == IF v = <<>> THEN Null ELSE v

\* new Book({...})
NewBook(id, body) ==
    [id |-> id, title |-> body.title, author |-> CastRef(body.author),
     summary |-> body.summary, isbn |-> body.isbn, genre |-> body.genre]

\* .populate("author")
PopulateAuthor(b) == [b EXCEPT !.author = FindById(authors, b.author)]

\* .populate("genre"): the referenced records that exist, in the order of the array
RECURSIVE GenreDocs(_)
GenreDocs(ids) ==
    IF ids = <<>> THEN <<>>
    ELSE (IF FindById(genres, Head(ids)) = {} THEN <<>>
          ELSE <<CHOOSE g \in genres : g.id = Head(ids)>>) \o GenreDocs(Tail(ids))

PopulateGenre(b) == [b EXCEPT !.genre = GenreDocs(b.genre)]

\* .populate("book")
PopulateBook(i) == [i EXCEPT !.book = FindById(books, i.book)]

\* a conversion that wraps whatever it gets, the absent field included
book_create_genre_to_array_wrap(genre) ==
    IF genre.type # "array" THEN Array(<<genre.val>>) ELSE genre

\* the first middleware of the array: "Convert the genre to an array."
book_create_genre_to_array(genre) ==
    IF genre.type # "array"
    THEN Array(IF genre.type = "undefined" THEN <<>> ELSE <<genre.val>>)
    ELSE genre

book_update_genre_to_array(genre) ==
    IF genre.type # "array"
    THEN Array(IF genre.type = "undefined" THEN <<>> ELSE <<genre.val>>)
    ELSE genre

\* body("genre.*").escape()
EscapeEach(seq) == [i \in 1..Len(seq) |-> Escape(seq[i])]

\* forEach(genre => { if (book.genre.includes(genre._id)) genre.checked = "true" })
MarkChecked(ids) ==
    {[id |-> g.id, name |-> g.name, checked |-> \E i \in 1..Len(ids) : ids[i] = g.id] : g \in genres}

book_list ==
    /\ req' = Request("book_list", NoId, NoId, NoData)
    /\ UNCHANGED awaiting
    /\ resp' = <<Render("book_list", "Book List",
                        [book_list |-> SortedSeq({[key |-> b.title,
                                                   rec |-> [id |-> b.id, title |-> b.title,
                                                            author |-> FindById(authors, b.author)]]
                                                  : b \in books})],
                        <<>>)>>
    /\ UNCHANGED <<store, counters>>

book_detail(id) ==
    LET book == {PopulateGenre(PopulateAuthor(b)) : b \in FindById(books, id)}
    IN  /\ req' = Request("book_detail", id, NoId, NoData)
        /\ UNCHANGED awaiting
        /\ resp' = IF book = {}
                   THEN <<Forward("Book not found", HttpNotFound)>>
                   ELSE <<Render("book_detail", (CHOOSE b \in book : TRUE).title,
                                 [book |-> book, book_instances |-> InstancesOfBook(id)], <<>>)>>
        /\ UNCHANGED <<store, counters>>

book_create_get ==
    /\ req' = Request("book_create_get", NoId, NoId, NoData)
    /\ UNCHANGED awaiting
    /\ resp' = <<Render("book_form", "Create Book",
                        [authors |-> authors, genres |-> genres], <<>>)>>
    /\ UNCHANGED <<store, counters>>

book_create_validate(body) ==
    LET genre   == book_create_genre_to_array(body.genre)
        title   == RequiredChain("title", "Title must not be empty.", body.title)
        author  == RequiredChain("author", "Author must not be empty.", body.author)
        summary == RequiredChain("summary", "Summary must not be empty.", body.summary)
        isbn    == RequiredChain("isbn", "ISBN must not be empty", body.isbn)
    IN  [body   |-> [title |-> title.value, author |-> author.value, summary |-> summary.value,
                     isbn |-> isbn.value, genre |-> EscapeEach(genre.val)],
         errors |-> title.errors \o author.errors \o summary.errors \o isbn.errors]

book_create_post(body) ==
    LET v    == book_create_validate(body)
        book == NewBook(Id(n_book + 1), v.body)
    IN  /\ req' = Request("book_create_post", NoId, NoId, body)
        /\ UNCHANGED awaiting
        /\ IF v.errors # <<>>
           THEN /\ resp' = <<Render("book_form", "Create Book",
                                    [authors |-> authors, genres |-> MarkChecked(book.genre),
                                     book |-> {book}], v.errors)>>
                /\ UNCHANGED <<store, counters>>
           ELSE /\ n_book < MaxBooks
                /\ books' = books \cup {book}
                /\ n_book' = n_book + 1
                /\ resp' = <<Redirect(DetailUrl("book", book.id))>>
                /\ UNCHANGED <<genres, authors, instances, n_genre, n_author, n_instance>>

book_delete_get(id) ==
    LET book == {PopulateAuthor(b) : b \in FindById(books, id)}
        view == Render("book_delete", "Delete Book",
                       [book |-> book,
                        book_bookinstances |-> {PopulateBook(i) : i \in InstancesOfBook(id)}], <<>>)
    IN  /\ req' = Request("book_delete_get", id, NoId, NoData)
        /\ UNCHANGED awaiting
        /\ resp' = IF book = {}
                   THEN <<Redirect(ListUrl("books")), view>>
                   ELSE <<view>>
        /\ UNCHANGED <<store, counters>>

\* the guard reads req.params.id, the removal takes req.body.bookid
book_delete_post(id, bookid) ==
    LET book               == {PopulateAuthor(b) : b \in FindById(books, id)}
        book_bookinstances == {PopulateBook(i) : i \in InstancesOfBook(id)}
    IN  /\ req' = Request("book_delete_post", id, bookid, NoData)
        /\ UNCHANGED awaiting
        /\ IF book_bookinstances # {}
           THEN /\ resp' = <<Render("book_delete", "Delete Book",
                                    [book |-> book, book_bookinstances |-> book_bookinstances],
                                    <<>>)>>
                /\ UNCHANGED <<store, counters>>
           ELSE /\ books' = RemoveById(books, bookid)
                /\ resp' = <<Redirect(ListUrl("books"))>>
                /\ UNCHANGED <<genres, authors, instances, counters>>

book_update_get(id) ==
    LET book == {PopulateGenre(PopulateAuthor(b)) : b \in FindById(books, id)}
    IN  /\ req' = Request("book_update_get", id, NoId, NoData)
        /\ UNCHANGED awaiting
        /\ resp' = IF book = {}
                   THEN <<Forward("Book not found", HttpNotFound)>>
                   ELSE <<Render("book_form", "Update Book",
                                 [authors |-> authors,
                                  genres |-> MarkChecked((CHOOSE b \in FindById(books, id) : TRUE).genre),
                                  book |-> book], <<>>)>>
        /\ UNCHANGED <<store, counters>>

book_update_validate(body) ==
    LET genre   == book_update_genre_to_array(body.genre)
        title   == RequiredChain("title", "Title must not be empty.", body.title)
        author  == RequiredChain("author", "Author must not be empty.", body.author)
        summary == RequiredChain("summary", "Summary must not be empty.", body.summary)
        isbn    == RequiredChain("isbn", "ISBN must not be empty", body.isbn)
    IN  [body   |-> [title |-> title.value, author |-> author.value, summary |-> summary.value,
                     isbn |-> isbn.value, genre |-> EscapeEach(genre.val)],
         errors |-> title.errors \o author.errors \o summary.errors \o isbn.errors]

\* an update issued before the validation result is looked at
book_update_post_early(id, body) ==
    LET v       == book_update_validate(body)
        book    == NewBook(id, v.body)
        thebook == FindById(books, id)
    IN  /\ req' = Request("book_update_post", id, NoId, body)
        /\ UNCHANGED awaiting
        /\ IF thebook = {}
           THEN /\ resp' = <<>>
                /\ UNCHANGED <<store, counters>>
           ELSE /\ books' = (books \ thebook) \cup {book}
                /\ resp' = IF v.errors # <<>>
                           THEN <<Render("book_form", "Update Book",
                                         [authors |-> authors, genres |-> MarkChecked(book.genre),
                                          book |-> {book}], v.errors)>>
                           ELSE <<Redirect(DetailUrl("book", id))>>
                /\ UNCHANGED <<genres, authors, instances, counters>>

book_update_post(id, body) ==
    LET v       == book_update_validate(body)
        book    == NewBook(id, v.body)
        thebook == FindById(books, id)
    IN  /\ req' = Request("book_update_post", id, NoId, body)
        /\ UNCHANGED awaiting
        /\ IF v.errors # <<>>
           THEN /\ resp' = <<Render("book_form", "Update Book",
                                    [authors |-> authors, genres |-> MarkChecked(book.genre),
                                     book |-> {book}], v.errors)>>
                /\ UNCHANGED <<store, counters>>
           ELSE IF thebook = {}
           THEN \* thebook.url throws outside any try: the rejection reaches nobody
                /\ resp' = <<>>
                /\ UNCHANGED <<store, counters>>
           ELSE /\ books' = (books \ thebook) \cup {book}
                /\ resp' = <<Redirect(DetailUrl("book", id))>>
                /\ UNCHANGED <<genres, authors, instances, counters>>

----------------------------------------------------------------------------
(* BookInstance controller *)

Available == <<"A", "v", "a", "i", "l", "a", "b", "l", "e">>
Loaned == <<"L", "o", "a", "n", "e", "d">>

InstanceBody(book, imprint, status, due_back) ==
    [book |-> book, imprint |-> imprint, status |-> status, due_back |-> due_back]

\* submitted copy forms: a valid one, a blank book, a blank imprint, an unparseable date
InstanceBodies ==
    {InstanceBody(Id(1), <<"a", " ">>, Available, <<>>),
     InstanceBody(<<>>, <<"a">>, Available, <<>>),
     InstanceBody(Id(1), <<" ">>, Loaned, IsoDate),
     InstanceBody(Id(1), <<"a">>, Available, <<"x">>)}

\* new BookInstance({...})
NewBookInstance(id, body) ==
    [id |-> id, book |-> CastRef(body.book), imprint |-> body.imprint,
     status |-> body.status, due_back |-> CastDate(body.due_back)]

\* Book.find({}, "title")
Titles(bs) == {[id |-> b.id, title |-> b.title] : b \in bs}

bookinstance_list ==
    /\ req' = Request("bookinstance_list", NoId, NoId, NoData)
    /\ UNCHANGED awaiting
    /\ resp' = <<Render("bookinstance_list", "Book Instance List",
                        [bookinstance_list |-> {PopulateBook(i) : i \in instances}], <<>>)>>
    /\ UNCHANGED <<store, counters>>

bookinstance_detail(id) ==
    LET bookinstance == {PopulateBook(i) : i \in FindById(instances, id)}
    IN  /\ req' = Request("bookinstance_detail", id, NoId, NoData)
        /\ UNCHANGED awaiting
        /\ resp' = IF bookinstance = {}
                   THEN <<Forward("Book copy not found", HttpNotFound)>>
                   ELSE IF \E i \in bookinstance : i.book = {}
                   THEN \* bookinstance.book.title on a copy whose book is gone
                        <<Forward(TypeError, NoStatus)>>
                   ELSE <<Render("bookinstance_detail", <<"Copy">>,
                                 [bookinstance |-> bookinstance], <<>>)>>
        /\ UNCHANGED <<store, counters>>

bookinstance_create_get ==
    /\ req' = Request("bookinstance_create_get", NoId, NoId, NoData)
    /\ UNCHANGED awaiting
    /\ resp' = <<Render("bookinstance_form", "Create BookInstance",
                        [book_list |-> Titles(books)], <<>>)>>
    /\ UNCHANGED <<store, counters>>

bookinstance_create_validate(body) ==
    LET book     == RequiredChain("book", "Book must be specified", body.book)
        imprint  == RequiredChain("imprint", "Imprint must be specified", body.imprint)
        due_back == DateChain("due_back", "Invalid date", body.due_back)
    IN  [body   |-> [book |-> book.value, imprint |-> imprint.value,
                     status |-> Escape(body.status), due_back |-> due_back.value],
         errors |-> book.errors \o imprint.errors \o due_back.errors]

bookinstance_create_post(body) ==
    LET v            == bookinstance_create_validate(body)
        bookinstance == NewBookInstance(Id(n_instance + 1), v.body)
    IN  /\ req' = Request("bookinstance_create_post", NoId, NoId, body)
        /\ UNCHANGED awaiting
        /\ IF v.errors # <<>>
           THEN /\ resp' = IF bookinstance.book = Null
                           THEN \* selected_book: bookinstance.book._id, inside the try
                                <<Forward(TypeError, NoStatus)>>
                           ELSE <<Render("bookinstance_form", "Create BookInstance",
                                         [book_list |-> Titles(books),
                                          selected_book |-> bookinstance.book,
                                          bookinstance |-> {bookinstance}], v.errors)>>
                /\ UNCHANGED <<store, counters>>
           ELSE /\ n_instance < MaxInstances
                /\ instances' = instances \cup {bookinstance}
                /\ n_instance' = n_instance + 1
                /\ resp' = <<Redirect(DetailUrl("bookinstance", bookinstance.id))>>
                /\ UNCHANGED <<genres, authors, books, n_genre, n_author, n_book>>

bookinstance_delete_get(id) ==
    LET bookinstance == {PopulateBook(i) : i \in FindById(instances, id)}
    IN  /\ req' = Request("bookinstance_delete_get", id, NoId, NoData)
        /\ UNCHANGED awaiting
        /\ resp' = IF bookinstance = {}
                   THEN <<Forward("Book copy not found", HttpNotFound)>>
                   ELSE <<Render("bookinstance_delete", "Delete Book-Instance",
                                 [bookinstance |-> bookinstance], <<>>)>>
        /\ UNCHANGED <<store, counters>>

bookinstance_delete_post(id, bookinstanceid) ==
    /\ req' = Request("bookinstance_delete_post", id, bookinstanceid, NoData)
    /\ UNCHANGED awaiting
    /\ instances' = RemoveById(instances, bookinstanceid)
    /\ resp' = <<Redirect(ListUrl("bookinstances"))>>
    /\ UNCHANGED <<genres, authors, books, counters>>

bookinstance_update_get(id) ==
    LET book_instance == {PopulateBook(i) : i \in FindById(instances, id)}
    IN  /\ req' = Request("bookinstance_update_get", id, NoId, NoData)
        /\ UNCHANGED awaiting
        /\ resp' = IF book_instance = {} \/ \E i \in book_instance : i.book = {}
                   THEN \* results.book_instance.book._id on null: there is no null check
                        <<Forward(TypeError, NoStatus)>>
                   ELSE <<Render("bookinstance_form", "Update BookInstance",
                                 [book_list |-> Titles(books),
                                  selected_book |-> (CHOOSE i \in FindById(instances, id) : TRUE).book,
                                  selected_status |-> (CHOOSE i \in book_instance : TRUE).status,
                                  bookinstance |-> book_instance], <<>>)>>
        /\ UNCHANGED <<store, counters>>

bookinstance_update_validate(body) ==
    LET book     == RequiredChain("book", "Book must be specified", body.book)
        imprint  == RequiredChain("imprint", "Imprint must be specified", body.imprint)
        due_back == DateChain("due_back", "Invalid date", body.due_back)
    IN  [body   |-> [book |-> book.value, imprint |-> imprint.value,
                     status |-> Escape(body.status), due_back |-> due_back.value],
         errors |-> book.errors \o imprint.errors \o due_back.errors]

bookinstance_update_post(id, body) ==
    LET v               == bookinstance_update_validate(body)
        bookinstance    == NewBookInstance(id, v.body)
        thebookinstance == FindById(instances, id)
    IN  /\ req' = Request("bookinstance_update_post", id, NoId, body)
        /\ UNCHANGED awaiting
        /\ IF v.errors # <<>>
           THEN /\ resp' = IF bookinstance.book = Null
                           THEN <<Forward(TypeError, NoStatus)>>
                           ELSE <<Render("bookinstance_form", "Update BookInstance",
                                         [book_list |-> Titles(books),
                                          selected_book |-> bookinstance.book,
                                          bookinstance |-> {bookinstance}], v.errors)>>
                /\ UNCHANGED <<store, counters>>
           ELSE IF thebookinstance = {}
           THEN \* thebookinstance.url on null, inside the try
                /\ resp' = <<Forward(TypeError, NoStatus)>>
                /\ UNCHANGED <<store, counters>>
           ELSE /\ instances' = (instances \ thebookinstance) \cup {bookinstance}
                /\ resp' = <<Redirect(DetailUrl("bookinstance", id))>>
                /\ UNCHANGED <<genres, authors, books, counters>>

----------------------------------------------------------------------------
(* Home page *)

index ==
    /\ req' = Request("index", NoId, NoId, NoData)
    /\ UNCHANGED awaiting
    /\ resp' = <<Render("index", "Local Library Home",
                        [book_count |-> Cardinality(books),
                         book_instance_count |-> Cardinality(instances),
                         book_instance_available_count |->
                             Cardinality({i \in instances : i.status = Available}),
                         author_count |-> Cardinality(authors),
                         genre_count |-> Cardinality(genres)], <<>>)>>
    /\ UNCHANGED <<store, counters>>

----------------------------------------------------------------------------
(* The program: requests are answered one after the other *)

Init ==
    /\ genres = {}
    /\ authors = {}
    /\ books = {}
    /\ instances = {}
    /\ n_genre = 0
    /\ n_author = 0
    /\ n_book = 0
    /\ n_instance = 0
    /\ req = Request("none", NoId, NoId, NoData)
    /\ resp = <<>>
    /\ awaiting = {}

GenreRequests ==
    \/ genre_list
    \/ \E id \in GenreIds : genre_detail(id)
    \/ genre_create_get
    \/ \E name \in NameInputs : genre_create_post([name |-> name])
    \/ \E id \in GenreIds : genre_delete_get(id)
    \/ \E id \in GenreIds, genreid \in GenreIds : genre_delete_post(id, genreid)
    \/ \E id \in GenreIds : genre_update_get(id)
    \/ \E id \in GenreIds, name \in NameInputs : genre_update_post(id, [name |-> name])

AuthorRequests ==
    \/ author_list
    \/ \E id \in AuthorIds : author_detail(id)
    \/ author_create_get
    \/ \E body \in AuthorBodies : author_create_post(body)
    \/ \E id \in AuthorIds : author_delete_get(id)
    \/ \E id \in AuthorIds, authorid \in AuthorIds : author_delete_post(id, authorid)
    \/ \E id \in AuthorIds : author_update_get(id)
    \/ \E id \in AuthorIds, body \in AuthorBodies : author_update_post(id, body)

BookRequests ==
    \/ book_list
    \/ \E id \in BookIds : book_detail(id)
    \/ book_create_get
    \/ \E body \in BookBodies : book_create_post(body)
    \/ \E id \in BookIds : book_delete_get(id)
    \/ \E id \in BookIds, bookid \in BookIds : book_delete_post(id, bookid)
    \/ \E id \in BookIds : book_update_get(id)
    \/ \E id \in BookIds, body \in BookBodies : book_update_post(id, body)

InstanceRequests ==
    \/ bookinstance_list
    \/ \E id \in InstanceIds : bookinstance_detail(id)
    \/ bookinstance_create_get
    \/ \E body \in InstanceBodies : bookinstance_create_post(body)
    \/ \E id \in InstanceIds : bookinstance_delete_get(id)
    \/ \E id \in InstanceIds, bookinstanceid \in InstanceIds : bookinstance_delete_post(id, bookinstanceid)
    \/ \E id \in InstanceIds : bookinstance_update_get(id)
    \/ \E id \in InstanceIds, body \in InstanceBodies : bookinstance_update_post(id, body)

Next ==
    \/ index
    \/ GenreRequests
    \/ AuthorRequests
    \/ BookRequests
    \/ InstanceRequests

Spec == Init /\ [][Next]_vars

\* The genre handlers alone.  No other handler writes the Genre collection, and of the other
\* collections the genre handlers only read the Books, so every Genre collection the program
\* can reach is reached here.
NextGenre == GenreRequests

SpecGenre == Init /\ [][NextGenre]_vars

\* The book handlers alone: no other handler writes the Book collection.
NextBook == BookRequests

SpecBook == Init /\ [][NextBook]_vars

\* The handlers that decide which Genres, Authors and Books exist and what the Books
\* reference: the create and delete POSTs of the three kinds and the book update POST.  (The
\* genre and author update POSTs replace names and dates only.)  With no BookInstance ever
\* stored the book delete guard never refuses, so the Book collections reached include all
\* those the whole program reaches.
NextReferences ==
    \/ \E name \in NameInputs : genre_create_post([name |-> name])
    \/ \E id \in GenreIds, genreid \in GenreIds : genre_delete_post(id, genreid)
    \/ \E body \in AuthorBodies : author_create_post(body)
    \/ \E id \in AuthorIds, authorid \in AuthorIds : author_delete_post(id, authorid)
    \/ \E body \in BookBodies : book_create_post(body)
    \/ \E id \in BookIds, bookid \in BookIds : book_delete_post(id, bookid)
    \/ \E id \in BookIds, body \in BookBodies : book_update_post(id, body)

SpecReferences == Init /\ [][NextReferences]_vars

----------------------------------------------------------------------------
(* Entity Store failures: the promise of an awaited store call rejects *)

StoreUnavailable == "StoreUnavailable"

FailedRequest(handler, id, bodyid, body, call) ==
    [Request(handler, id, bodyid, body) EXCEPT !.failed = call]

\* The await throws.  Inside a try the catch hands the error to next(); outside one the
\* promise of the async handler rejects and nothing answers the request.  No store call
\* follows in either case, and none of the calls before it was a write.
Rejects(r, caught) ==
    /\ req' = r
    /\ UNCHANGED awaiting
    /\ resp' = IF caught THEN <<Forward(StoreUnavailable, NoStatus)>> ELSE <<>>
    /\ UNCHANGED <<store, counters>>

\* index takes (req, res) only: next(err) in its catch is a ReferenceError
index_fails(call) ==
    Rejects(FailedRequest("index", NoId, NoId, NoData, call), FALSE)

genre_list_fails ==
    Rejects(FailedRequest("genre_list", NoId, NoId, NoData, "Genre.find"), TRUE)

genre_detail_fails(id, call) ==
    /\ call \in {"Genre.findById", "Book.find"}
    /\ Rejects(FailedRequest("genre_detail", id, NoId, NoData, call), TRUE)

genre_create_post_fails(body, call) ==
    LET v == genre_create_validate(body)
    IN  /\ v.errors = <<>>
        /\ \/ call = "Genre.findOne"
           \/ call = "genre.save" /\ GenresNamed(v.body.name) = {}
        /\ Rejects(FailedRequest("genre_create_post", NoId, NoId, body, call), TRUE)

genre_delete_get_fails(id, call) ==
    /\ call \in {"Genre.findById", "Book.find"}
    /\ Rejects(FailedRequest("genre_delete_get", id, NoId, NoData, call), TRUE)

genre_delete_post_fails(id, genreid, call) ==
    /\ \/ call \in {"Genre.findById", "Book.find"}
       \/ call = "Genre.findByIdAndRemove" /\ BooksOfGenre(genreid) = {}
    /\ Rejects(FailedRequest("genre_delete_post", id, genreid, NoData, call), TRUE)

genre_update_get_fails(id) ==
    Rejects(FailedRequest("genre_update_get", id, NoId, NoData, "Genre.findById"), TRUE)

\* the findById of the error branch is awaited outside the try
genre_update_post_fails(id, body, call) ==
    LET v == genre_update_validate(body)
    IN  \/ /\ v.errors # <<>>
           /\ call = "Genre.findById"
           /\ Rejects(FailedRequest("genre_update_post", id, NoId, body, call), FALSE)
        \/ /\ v.errors = <<>>
           /\ \/ call = "Genre.findOne"
              \/ call = "Genre.findByIdAndUpdate" /\ GenresNamed(v.body.name) = {}
           /\ Rejects(FailedRequest("genre_update_post", id, NoId, body, call), TRUE)

author_list_fails ==
    Rejects(FailedRequest("author_list", NoId, NoId, NoData, "Author.find"), TRUE)

author_detail_fails(id, call) ==
    /\ call \in {"Author.findById", "Book.find"}
    /\ Rejects(FailedRequest("author_detail", id, NoId, NoData, call), TRUE)

\* author.save() is awaited outside any try
author_create_post_fails(body) ==
    /\ author_create_validate(body).errors = <<>>
    /\ Rejects(FailedRequest("author_create_post", NoId, NoId, body, "author.save"), FALSE)

author_delete_get_fails(id, call) ==
    /\ call \in {"Author.findById", "Book.find"}
    /\ Rejects(FailedRequest("author_delete_get", id, NoId, NoData, call), TRUE)

author_delete_post_fails(id, authorid, call) ==
    /\ \/ call \in {"Author.findById", "Book.find"}
       \/ call = "Author.findByIdAndRemove" /\ BooksOfAuthor(authorid) = {}
    /\ Rejects(FailedRequest("author_delete_post", id, authorid, NoData, call), TRUE)

author_update_get_fails(id) ==
    Rejects(FailedRequest("author_update_get", id, NoId, NoData, "Author.findById"), TRUE)

\* Author.findByIdAndUpdate() is awaited outside any try
author_update_post_fails(id, body) ==
    /\ author_update_validate(body).errors = <<>>
    /\ Rejects(FailedRequest("author_update_post", id, NoId, body, "Author.findByIdAndUpdate"),
               FALSE)

book_list_fails ==
    Rejects(FailedRequest("book_list", NoId, NoId, NoData, "Book.find"), TRUE)

book_detail_fails(id, call) ==
    /\ call \in {"Book.findById", "BookInstance.find"}
    /\ Rejects(FailedRequest("book_detail", id, NoId, NoData, call), TRUE)

book_create_get_fails(call) ==
    /\ call \in {"Author.find", "Genre.find"}
    /\ Rejects(FailedRequest("book_create_get", NoId, NoId, NoData, call), TRUE)

book_create_post_fails(body, call) ==
    /\ IF book_create_validate(body).errors # <<>>
       THEN call \in {"Author.find", "Genre.find"}
       ELSE call = "book.save"
    /\ Rejects(FailedRequest("book_create_post", NoId, NoId, body, call), TRUE)

book_delete_get_fails(id, call) ==
    /\ call \in {"Book.findById", "BookInstance.find"}
    /\ Rejects(FailedRequest("book_delete_get", id, NoId, NoData, call), TRUE)

book_delete_post_fails(id, bookid, call) ==
    /\ \/ call \in {"Book.findById", "BookInstance.find"}
       \/ call = "Book.findByIdAndRemove" /\ InstancesOfBook(id) = {}
    /\ Rejects(FailedRequest("book_delete_post", id, bookid, NoData, call), TRUE)

book_update_get_fails(id, call) ==
    /\ call \in {"Book.findById", "Author.find", "Genre.find"}
    /\ Rejects(FailedRequest("book_update_get", id, NoId, NoData, call), TRUE)

\* the reload of the error branch is inside a try, Book.findByIdAndUpdate() is not
book_update_post_fails(id, body, call) ==
    IF book_update_validate(body).errors # <<>>
    THEN /\ call \in {"Author.find", "Genre.find"}
         /\ Rejects(FailedRequest("book_update_post", id, NoId, body, call), TRUE)
    ELSE /\ call = "Book.findByIdAndUpdate"
         /\ Rejects(FailedRequest("book_update_post", id, NoId, body, call), FALSE)

bookinstance_list_fails ==
    Rejects(FailedRequest("bookinstance_list", NoId, NoId, NoData, "BookInstance.find"), TRUE)

bookinstance_detail_fails(id) ==
    Rejects(FailedRequest("bookinstance_detail", id, NoId, NoData, "BookInstance.findById"), TRUE)

bookinstance_create_get_fails ==
    Rejects(FailedRequest("bookinstance_create_get", NoId, NoId, NoData, "Book.find"), TRUE)

bookinstance_create_post_fails(body, call) ==
    /\ IF bookinstance_create_validate(body).errors # <<>>
       THEN call = "Book.find"
       ELSE call = "bookinstance.save"
    /\ Rejects(FailedRequest("bookinstance_create_post", NoId, NoId, body, call), TRUE)

bookinstance_delete_get_fails(id) ==
    Rejects(FailedRequest("bookinstance_delete_get", id, NoId, NoData, "BookInstance.findById"),
            TRUE)

bookinstance_delete_post_fails(id, bookinstanceid) ==
    Rejects(FailedRequest("bookinstance_delete_post", id, bookinstanceid, NoData,
                          "BookInstance.findByIdAndRemove"), TRUE)

bookinstance_update_get_fails(id, call) ==
    /\ call \in {"BookInstance.findById", "Book.find"}
    /\ Rejects(FailedRequest("bookinstance_update_get", id, NoId, NoData, call), TRUE)

bookinstance_update_post_fails(id, body, call) ==
    /\ IF bookinstance_update_validate(body).errors # <<>>
       THEN call = "Book.find"
       ELSE call = "BookInstance.findByIdAndUpdate"
    /\ Rejects(FailedRequest("bookinstance_update_post", id, NoId, body, call), TRUE)

\* the calls a Promise.all of a handler awaits together
GenreReads == {"Genre.findById", "Book.find"}
AuthorReads == {"Author.findById", "Book.find"}
BookReads == {"Book.findById", "BookInstance.find"}
FormReads == {"Author.find", "Genre.find"}
Counts == {"Book.countDocuments", "BookInstance.countDocuments", "Author.countDocuments",
           "Genre.countDocuments"}

GenreFailures ==
    \/ genre_list_fails
    \/ \E id \in GenreIds, call \in GenreReads : genre_detail_fails(id, call)
    \/ \E name \in NameInputs, call \in {"Genre.findOne", "genre.save"} :
          genre_create_post_fails([name |-> name], call)
    \/ \E id \in GenreIds, call \in GenreReads : genre_delete_get_fails(id, call)
    \/ \E id \in GenreIds, genreid \in GenreIds,
          call \in GenreReads \cup {"Genre.findByIdAndRemove"} :
          genre_delete_post_fails(id, genreid, call)
    \/ \E id \in GenreIds : genre_update_get_fails(id)
    \/ \E id \in GenreIds, name \in NameInputs,
          call \in {"Genre.findById", "Genre.findOne", "Genre.findByIdAndUpdate"} :
          genre_update_post_fails(id, [name |-> name], call)

AuthorFailures ==
    \/ author_list_fails
    \/ \E id \in AuthorIds, call \in AuthorReads : author_detail_fails(id, call)
    \/ \E body \in AuthorBodies : author_create_post_fails(body)
    \/ \E id \in AuthorIds, call \in AuthorReads : author_delete_get_fails(id, call)
    \/ \E id \in AuthorIds, authorid \in AuthorIds,
          call \in AuthorReads \cup {"Author.findByIdAndRemove"} :
          author_delete_post_fails(id, authorid, call)
    \/ \E id \in AuthorIds : author_update_get_fails(id)
    \/ \E id \in AuthorIds, body \in AuthorBodies : author_update_post_fails(id, body)

BookFailures ==
    \/ book_list_fails
    \/ \E id \in BookIds, call \in BookReads : book_detail_fails(id, call)
    \/ \E call \in FormReads : book_create_get_fails(call)
    \/ \E body \in BookBodies, call \in FormReads \cup {"book.save"} :
          book_create_post_fails(body, call)
    \/ \E id \in BookIds, call \in BookReads : book_delete_get_fails(id, call)
    \/ \E id \in BookIds, bookid \in BookIds, call \in BookReads \cup {"Book.findByIdAndRemove"} :
          book_delete_post_fails(id, bookid, call)
    \/ \E id \in BookIds, call \in {"Book.findById"} \cup FormReads : book_update_get_fails(id, call)
    \/ \E id \in BookIds, body \in BookBodies, call \in FormReads \cup {"Book.findByIdAndUpdate"} :
          book_update_post_fails(id, body, call)

InstanceFailures ==
    \/ bookinstance_list_fails
    \/ \E id \in InstanceIds : bookinstance_detail_fails(id)
    \/ bookinstance_create_get_fails
    \/ \E body \in InstanceBodies, call \in {"Book.find", "bookinstance.save"} :
          bookinstance_create_post_fails(body, call)
    \/ \E id \in InstanceIds : bookinstance_delete_get_fails(id)
    \/ \E id \in InstanceIds, bookinstanceid \in InstanceIds :
          bookinstance_delete_post_fails(id, bookinstanceid)
    \/ \E id \in InstanceIds, call \in {"BookInstance.findById", "Book.find"} :
          bookinstance_update_get_fails(id, call)
    \/ \E id \in InstanceIds, body \in InstanceBodies,
          call \in {"Book.find", "BookInstance.findByIdAndUpdate"} :
          bookinstance_update_post_fails(id, body, call)

\* The program with a store that may fail any call: the create POSTs, which decide the
\* records and dependents that exist and so the branch a handler is in when its call fails,
\* and every handler with each of its store calls failing.
NextStoreFailure ==
    \/ \E name \in NameInputs : genre_create_post([name |-> name])
    \/ \E body \in AuthorBodies : author_create_post(body)
    \/ \E body \in BookBodies : book_create_post(body)
    \/ \E body \in InstanceBodies : bookinstance_create_post(body)
    \/ \E call \in Counts : index_fails(call)
    \/ GenreFailures
    \/ AuthorFailures
    \/ BookFailures
    \/ InstanceFailures

SpecStoreFailure == Init /\ [][NextStoreFailure]_vars

----------------------------------------------------------------------------
(* Interleaving: a handler gives way to other requests at each await.  The author delete   *)
(* POST awaits twice, its two lookups and then the removal; the create and update POSTs    *)
(* below make one store call each on the path that writes, so they stay one step.          *)

\* a run of author_delete_post suspended at the await of findByIdAndRemove
Suspended(id, authorid, results) ==
    [handler |-> "author_delete_post", id |-> id, bodyid |-> authorid, results |-> results]

\* a first half that goes on to the removal whatever the lookup returned
author_delete_post_query_unguarded(id, authorid) ==
    LET results == [author |-> FindById(authors, authorid), author_books |-> BooksOfAuthor(authorid)]
    IN  /\ Cardinality(awaiting) < MaxInFlight
        /\ req' = Request("author_delete_post", id, authorid, NoData)
        /\ resp' = <<>>
        /\ awaiting' = awaiting \cup {Suspended(id, authorid, results)}
        /\ UNCHANGED <<store, counters>>

\* up to the second await: the Promise.all resolves; with books the view is rendered and
\* the run is over, without books the run goes on to the removal and waits for it
author_delete_post_query(id, authorid) ==
    LET results == [author |-> FindById(authors, authorid), author_books |-> BooksOfAuthor(authorid)]
    IN  /\ req' = Request("author_delete_post", id, authorid, NoData)
        /\ IF results.author_books # {}
           THEN /\ resp' = <<Render("author_delete", "Delete Author",
                                    [author |-> results.author,
                                     author_books |-> results.author_books], <<>>)>>
                /\ UNCHANGED awaiting
           ELSE /\ Cardinality(awaiting) < MaxInFlight
                /\ resp' = <<>>
                /\ awaiting' = awaiting \cup {Suspended(id, authorid, results)}
        /\ UNCHANGED <<store, counters>>

\* from the second await on: the removal takes effect and the run redirects
author_delete_post_remove(run) ==
    /\ run \in awaiting
    /\ authors' = RemoveById(authors, run.bodyid)
    /\ awaiting' = awaiting \ {run}
    /\ req' = Request("author_delete_post", run.id, run.bodyid, NoData)
    /\ resp' = <<Redirect(ListUrl("authors"))>>
    /\ UNCHANGED <<genres, books, instances, counters>>

NextInterleaved ==
    \/ \E body \in AuthorBodies : author_create_post(body)
    \/ \E body \in BookBodies : book_create_post(body)
    \/ \E id \in BookIds, body \in BookBodies : book_update_post(id, body)
    \/ \E id \in AuthorIds, authorid \in AuthorIds : author_delete_post_query(id, authorid)
    \/ \E run \in awaiting : author_delete_post_remove(run)

SpecInterleaved == Init /\ [][NextInterleaved]_vars

----------------------------------------------------------------------------
(* Properties *)

\* ids of the records a step takes out of a collection
RemovedIds(old, new) == {r.id : r \in old} \ {r.id : r \in new}

HasGenre(b, id) == \E i \in 1..Len(b.genre) : b.genre[i] = id

\* C1: whenever a delete POST removes an Author or a Genre, no Book references the removed
\* record at that moment, and whenever it removes a Book, no BookInstance references it.
C1_DeleteKeepsReferences ==
    [][/\ \A id \in RemovedIds(authors, authors') : {b \in books : b.author = id} = {}
       /\ \A id \in RemovedIds(genres, genres') : {b \in books : HasGenre(b, id)} = {}
       /\ \A id \in RemovedIds(books, books') : {i \in instances : i.book = id} = {}]_vars

\* C3: a book delete POST for a Book without BookInstances removes that Book and redirects
\* to the book list; for a Book with BookInstances it renders exactly those and removes no Book.
C3_BookDeleteRemovesGuardedBook ==
    [][req'.handler = "book_delete_post" =>
         IF {i \in instances : i.book = req'.id} = {}
         THEN /\ books' = {b \in books : b.id # req'.id}
              /\ resp' = <<Redirect(ListUrl("books"))>>
         ELSE /\ books' = books
              /\ Len(resp') = 1
              /\ resp'[1].type = "render"
              /\ {i.id : i \in resp'[1].data.book_bookinstances}
                     = {i.id : i \in {j \in instances : j.book = req'.id}}]_vars

\* C2: an author (genre) delete POST for a record no Book references removes it and
\* redirects to the list; otherwise it renders the delete view with exactly the referencing
\* Books, redirects nowhere and leaves the record in place.
C2_AuthorGenreDeleteGuarded ==
    [][/\ req'.handler = "author_delete_post" =>
            IF {b \in books : b.author = req'.bodyid} = {}
            THEN /\ authors' = {a \in authors : a.id # req'.bodyid}
                 /\ resp' = <<Redirect(ListUrl("authors"))>>
            ELSE /\ authors' = authors
                 /\ Len(resp') = 1
                 /\ resp'[1].type = "render"
                 /\ resp'[1].view = "author_delete"
                 /\ resp'[1].data.author_books = {b \in books : b.author = req'.bodyid}
       /\ req'.handler = "genre_delete_post" =>
            IF {b \in books : HasGenre(b, req'.bodyid)} = {}
            THEN /\ genres' = {g \in genres : g.id # req'.bodyid}
                 /\ resp' = <<Redirect(ListUrl("genres"))>>
            ELSE /\ genres' = genres
                 /\ Len(resp') = 1
                 /\ resp'[1].type = "render"
                 /\ resp'[1].view = "genre_delete"
                 /\ resp'[1].data.genre_books = {b \in books : HasGenre(b, req'.bodyid)}]_vars

\* a genre delete was refused for a genre that exists and that a book lists second
C2_Witness ==
    /\ req.handler = "genre_delete_post"
    /\ Len(resp) = 1
    /\ resp[1].type = "render"
    /\ \E g \in genres : g.id = req.bodyid
    /\ \E b \in resp[1].data.genre_books : Len(b.genre) = 2 /\ b.genre[2] = req.bodyid

\* C4: a genre create POST with a valid name that an existing Genre holds (after trim and
\* escape) redirects to that Genre and inserts nothing; with a name nobody holds it inserts
\* exactly one record of that name and redirects to it.
C4_GenreCreateNoDuplicate ==
    [][(req'.handler = "genre_create_post" /\ Trim(req'.body.name) # <<>>) =>
         LET name == Escape(Trim(req'.body.name))
             held == {g \in genres : g.name = name}
         IN  IF held # {}
             THEN /\ genres' = genres
                  /\ Cardinality({g \in genres' : g.name = name}) = 1
                  /\ \E g \in held : resp' = <<Redirect(DetailUrl("genre", g.id))>>
             ELSE /\ Cardinality(genres') = Cardinality(genres) + 1
                  /\ genres \subseteq genres'
                  /\ \E g \in genres' \ genres :
                        /\ g.name = name
                        /\ resp' = <<Redirect(DetailUrl("genre", g.id))>>]_vars

\* a create with an untrimmed name was redirected to the genre that holds the trimmed name
C4_Witness ==
    /\ req.handler = "genre_create_post"
    /\ req.body.name = <<" ", "a">>
    /\ Cardinality(genres) = 2
    /\ \E g \in genres : g.name = <<"a">> /\ resp = <<Redirect(DetailUrl("genre", g.id))>>

\* C5: a genre update POST whose valid name a different Genre holds fails with the
\* duplicate-name error and mutates nothing.
C5_GenreUpdateDuplicateRejected ==
    [][(/\ req'.handler = "genre_update_post"
        /\ Trim(req'.body.name) # <<>>
        /\ \E g \in genres : g.id # req'.id /\ g.name = Escape(Trim(req'.body.name)))
       => /\ genres' = genres
          /\ Len(resp') = 1
          /\ resp'[1].type = "next"
          /\ resp'[1].err = "Genre already exists"]_vars

\* an update of an existing genre to the name of the other genre was refused
C5_Witness ==
    /\ req.handler = "genre_update_post"
    /\ \E g \in genres : g.id = req.id
    /\ \E g \in genres : g.id # req.id /\ g.name = Escape(Trim(req.body.name))
    /\ Len(resp) = 1
    /\ resp[1].type = "next"

CreateUpdatePosts ==
    {"genre_create_post", "genre_update_post", "author_create_post", "author_update_post",
     "book_create_post", "book_update_post", "bookinstance_create_post",
     "bookinstance_update_post"}

\* the required fields of the form a handler receives
RequiredFields(handler) ==
    CASE handler \in {"genre_create_post", "genre_update_post"} -> {"name"}
      [] handler \in {"author_create_post", "author_update_post"} -> {"first_name", "family_name"}
      [] handler \in {"book_create_post", "book_update_post"} -> {"title", "author", "summary", "isbn"}
      [] handler \in {"bookinstance_create_post", "bookinstance_update_post"} -> {"book", "imprint"}

IsBlank(str) == \A i \in 1..Len(str) : str[i] = " "

ErrorsFor(errors, field) == {i \in 1..Len(errors) : errors[i].param = field}

\* C6: a create or update POST with blank required fields is answered by the form with
\* exactly one error for each blank required field.
C6_OneErrorPerBlankField ==
    (req.handler \in CreateUpdatePosts
     /\ \E f \in RequiredFields(req.handler) : IsBlank(req.body[f]))
    => /\ Len(resp) = 1
       /\ resp[1].type = "render"
       /\ \A f \in RequiredFields(req.handler) :
             IsBlank(req.body[f]) => Cardinality(ErrorsFor(resp[1].errors, f)) = 1

\* the text fields of the draft a form view shows, per handler
DraftOf(handler, data) ==
    CASE handler \in {"genre_create_post", "genre_update_post"} -> data.genre
      [] handler \in {"author_create_post", "author_update_post"} -> data.author
      [] handler \in {"book_create_post", "book_update_post"} -> data.book
      [] handler \in {"bookinstance_create_post", "bookinstance_update_post"} -> data.bookinstance

TextFields(handler) ==
    CASE handler \in {"genre_create_post", "genre_update_post"} -> {"name"}
      [] handler \in {"author_create_post", "author_update_post"} -> {"first_name", "family_name"}
      [] handler \in {"book_create_post", "book_update_post"} -> {"title", "summary", "isbn"}
      [] handler \in {"bookinstance_create_post", "bookinstance_update_post"} -> {"imprint", "status"}

\* C7: the form re-rendered after a validation failure shows, in every text field, the value
\* submitted with the request (trimmed and escaped), never a stored one.
C7_RejectedFormEchoesSubmission ==
    (/\ req.handler \in CreateUpdatePosts
     /\ Len(resp) = 1
     /\ resp[1].type = "render"
     /\ resp[1].errors # <<>>)
    => /\ DraftOf(req.handler, resp[1].data) # {}
       /\ \A d \in DraftOf(req.handler, resp[1].data) :
             \A f \in TextFields(req.handler) :
                d[f] = Escape(IF f = "status" THEN req.body[f] ELSE Trim(req.body[f]))

DeleteGets ==
    {"genre_delete_get", "author_delete_get", "book_delete_get", "bookinstance_delete_get"}

DetailAndUpdateGets ==
    {"genre_detail", "author_detail", "book_detail", "bookinstance_detail",
     "genre_update_get", "author_update_get", "book_update_get", "bookinstance_update_get"}

\* the collection a GET handler looks its id up in
CollectionOf(handler) ==
    CASE handler \in {"genre_delete_get", "genre_detail", "genre_update_get"} -> genres
      [] handler \in {"author_delete_get", "author_detail", "author_update_get"} -> authors
      [] handler \in {"book_delete_get", "book_detail", "book_update_get"} -> books
      [] handler \in {"bookinstance_delete_get", "bookinstance_detail",
                      "bookinstance_update_get"} -> instances

ListOf(handler) ==
    CASE handler = "genre_delete_get" -> "genres"
      [] handler = "author_delete_get" -> "authors"
      [] handler = "book_delete_get" -> "books"
      [] handler = "bookinstance_delete_get" -> "bookinstances"

Missing(handler, id) == \A r \in CollectionOf(handler) : r.id # id

\* C8: a delete GET for an id without a record answers with a redirect to the list of the
\* kind and nothing else: no view, no error handed to the fault handler.
C8_DeleteGetMissingRedirects ==
    (req.handler \in DeleteGets /\ Missing(req.handler, req.id))
    => resp = <<Redirect(ListUrl(ListOf(req.handler)))>>

\* C9: a detail GET or an update GET for an id without a record hands a 404 error to the
\* fault handler and renders nothing.
C9_DetailUpdateGetMissingNotFound ==
    (req.handler \in DetailAndUpdateGets /\ Missing(req.handler, req.id))
    => /\ Len(resp) = 1
       /\ resp[1].type = "next"
       /\ resp[1].status = "404"

\* the genre set the claim expects for a submitted genre field
ExpectedGenre(genre) ==
    CASE genre.type = "undefined" -> <<>>
      [] genre.type = "string" -> <<genre.val>>
      [] genre.type = "array" -> genre.val

\* C10: book create and update POST turn an absent genre field into the empty set (and
\* report no error for it), a single value into a one-element set, and keep several values
\* as they are: the book saved or shown again carries that set.
C10_GenreNormalized ==
    (req.handler \in {"book_create_post", "book_update_post"} /\ Len(resp) = 1)
    => IF resp[1].type = "render"
       THEN /\ \A b \in resp[1].data.book : b.genre = ExpectedGenre(req.body.genre)
            /\ resp[1].data.book # {}
            /\ ErrorsFor(resp[1].errors, "genre") = {}
       ELSE /\ resp[1].type = "redirect"
            /\ \E b \in books :
                  /\ resp[1].url = DetailUrl("book", b.id)
                  /\ b.genre = ExpectedGenre(req.body.genre)

\* a book submitted with a single genre value was saved with a one-element genre set, and
\* one submitted without the field is stored with the empty set
C10_Witness ==
    /\ req.handler = "book_update_post"
    /\ req.body.genre.type = "undefined"
    /\ Len(resp) = 1
    /\ resp[1].type = "redirect"
    /\ \E b \in books : b.id = req.id /\ b.genre = <<>>

DeletePosts ==
    {"genre_delete_post", "author_delete_post", "book_delete_post", "bookinstance_delete_post"}

\* the optional date fields of the form a handler receives
DateFields(handler) ==
    CASE handler \in {"author_create_post", "author_update_post"} -> {"date_of_birth", "date_of_death"}
      [] handler \in {"bookinstance_create_post", "bookinstance_update_post"} -> {"due_back"}
      [] OTHER -> {}

\* the fields that take letters and digits only
NameFields(handler) ==
    IF handler \in {"author_create_post", "author_update_post"}
    THEN {"first_name", "family_name"}
    ELSE {}

\* ValidationFailed: a required field is blank, a name has a character that is neither a
\* letter nor a digit, or a date that was provided is no calendar date
ValidationFailed(r) ==
    /\ r.handler \in CreateUpdatePosts
    /\ \/ \E f \in RequiredFields(r.handler) : IsBlank(r.body[f])
       \/ \E f \in NameFields(r.handler) :
             \E i \in 1..Len(Trim(r.body[f])) : Trim(r.body[f])[i] \notin Letters \cup DigitSet
       \/ \E f \in DateFields(r.handler) :
             r.body[f] # <<>> /\ ~(Len(r.body[f]) = 4 /\ \A i \in 1..4 : r.body[f][i] \in DigitSet)

\* DuplicateName: the valid name of a genre create is held by a Genre, that of an update of
\* a Genre by another Genre
DuplicateName(r) ==
    /\ r.handler \in {"genre_create_post", "genre_update_post"}
    /\ ~ValidationFailed(r)
    /\ r.handler = "genre_update_post" => \E h \in genres : h.id = r.id
    /\ \E g \in genres :
          /\ g.name = Escape(Trim(r.body.name))
          /\ r.handler = "genre_update_post" => g.id # r.id

\* ReferenceBlocked: the record a delete POST names (in the URL and in the form alike) has
\* dependent records
ReferenceBlocked(r) ==
    \/ r.handler = "author_delete_post" /\ \E b \in books : b.author = r.bodyid
    \/ r.handler = "genre_delete_post" /\ \E b \in books : HasGenre(b, r.bodyid)
    \/ r.handler = "book_delete_post" /\ r.id = r.bodyid /\ \E i \in instances : i.book = r.bodyid

\* C11: a request that ends in ValidationFailed, DuplicateName or ReferenceBlocked is
\* answered by the controller itself with one view (for a DuplicateName on create, one
\* redirect to the existing record) and never hands an error to the fault handler; a
\* DuplicateName on genre update is answered with the form carrying an error.
C11_LocalOutcomesNotForwarded ==
    [][(ValidationFailed(req') \/ DuplicateName(req') \/ ReferenceBlocked(req'))
       => /\ Len(resp') = 1
          /\ resp'[1].type # "next"
          /\ IF req'.handler = "genre_create_post" /\ DuplicateName(req')
             THEN resp'[1].type = "redirect"
             ELSE resp'[1].type = "render"
          /\ (req'.handler = "genre_update_post" /\ DuplicateName(req'))
             => resp'[1].view = "genre_form" /\ resp'[1].errors # <<>>]_vars

\* C12: when a store call of a request fails, the handler changes nothing in the store
\* and hands the failure to the fault handler: the request ends in that one error response.
C12_StoreFailureForwarded ==
    [][req'.failed # NoCall
       => /\ <<genres', authors', books', instances'>> = <<genres, authors, books, instances>>
          /\ Len(resp') = 1
          /\ resp'[1].type = "next"
          /\ resp'[1].err = "StoreUnavailable"]_vars

GetHandlers ==
    {"index",
     "genre_list", "genre_detail", "genre_create_get", "genre_delete_get", "genre_update_get",
     "author_list", "author_detail", "author_create_get", "author_delete_get", "author_update_get",
     "book_list", "book_detail", "book_create_get", "book_delete_get", "book_update_get",
     "bookinstance_list", "bookinstance_detail", "bookinstance_create_get",
     "bookinstance_delete_get", "bookinstance_update_get"}

PostHandlers == CreateUpdatePosts \cup DeletePosts

\* C13: the records of the four kinds and their fields change only in a POST that is
\* accepted (and answered by a redirect): every GET, and every POST that ends in a
\* validation failure, in a genre name that is already held or in the delete view of a
\* blocked delete, leaves the four collections as they were.
C13_StoreChangesOnlyOnAcceptedPost ==
    [][LET Unchanged == <<genres', authors', books', instances'>>
                            = <<genres, authors, books, instances>>
           BlockedDelete == /\ req'.handler \in DeletePosts
                            /\ \E i \in 1..Len(resp') : resp'[i].type = "render"
       IN  /\ req'.handler \in GetHandlers => Unchanged
           /\ (/\ req'.handler \in PostHandlers
               /\ \/ ValidationFailed(req')
                  \/ (req'.handler \in {"genre_create_post", "genre_update_post"}
                      /\ \E g \in genres : g.name = Escape(Trim(req'.body.name)))
                  \/ BlockedDelete)
              => Unchanged
           /\ ~Unchanged => /\ req'.handler \in PostHandlers
                            /\ Len(resp') = 1
                            /\ resp'[1].type = "redirect"]_vars

\* a book update with a blank field was answered by the form while the book, an author
\* and a genre are stored
C13_Witness ==
    /\ req.handler = "book_update_post"
    /\ ValidationFailed(req)
    /\ Len(resp) = 1
    /\ resp[1].type = "render"
    /\ \E b \in books : b.id = req.id
    /\ authors # {}
    /\ genres # {}

\* an Author that was stored once and is stored no longer
RemovedAuthorIds == {Id(n) : n \in 1..n_author} \ {a.id : a \in authors}

\* a Book references a removed Author
BookOfRemovedAuthor == \E b \in books : b.author \in RemovedAuthorIds

\* C14 as claimed: a Book comes to reference a removed Author only under interleaving,
\* that is in a step taken while an author delete is between its query and its removal
\* (the Book's insert) or in the step that ends such a delete (the removal); requests
\* that run one after the other never produce such a Book.
C14_DanglingOnlyUnderInterleaving ==
    [][(BookOfRemovedAuthor' /\ ~BookOfRemovedAuthor) => awaiting # {}]_vars

\* C14 as amended: an Author is removed only by an author delete whose query found no
\* Book of the Author; when a Book references the Author at the removal, that query is
\* stale: another request ran between the delete's query and its removal.  A delete whose
\* query and removal run with nothing between them removes no referenced Author.
C14_ReferencedAuthorRemovedOnlyByStaleDelete ==
    [][\A id \in RemovedIds(authors, authors') :
          \E run \in awaiting :
              /\ run.bodyid = id
              /\ awaiting' = awaiting \ {run}
              /\ run.results.author_books = {}
              /\ (\E b \in books : b.author = id)
                 => ~(/\ req = Request("author_delete_post", run.id, run.bodyid, NoData)
                      /\ resp = <<>>)]_vars

\* the race: the delete's removal has just taken effect although a Book, inserted after
\* the delete's query, references the Author, who is gone
C14_Witness ==
    /\ req.handler = "author_delete_post"
    /\ resp = <<Redirect(ListUrl("authors"))>>
    /\ req.bodyid \in RemovedAuthorIds
    /\ \E b \in books : b.author = req.bodyid

\* C15: every handler run, whatever the store and the request, ends with exactly one
\* response action, a render, a redirect or an error handed to the fault handler, and
\* never with a second one (such as a render after a redirect) or with none.
C15_ExactlyOneResponse ==
    req.handler # "none"
    => /\ Len(resp) = 1
       /\ resp[1].type \in {"render", "redirect", "next"}

=============================================================================
